---- MODULE Spec2Model ----
(***************************************************************************)
(* Model of displaywriter_receiver.py: the receiver that turns the lines   *)
(* an Arduino sends over serial into OS key events (or debug output).      *)
(*                                                                         *)
(* Bytes and strings are sequences of one-character strings; a line is the *)
(* value ser.readline() returns.  Python dict objects live in `heap`, and  *)
(* KEYS / FUNCTION_MODIFIER_KEYS map a key index to a reference into it,   *)
(* so that two tables holding the same dict share its fields as in Python. *)
(* Key identities handed to the `keyboard` library are strings; a numeric  *)
(* scancode n of the calibration file is written "#n".                     *)
(***************************************************************************)
EXTENDS Integers, Sequences, FiniteSets, TLC

VARIABLES pc, dry_run, raw, cal_fd, heap, KEYS, FUNCTION_MODIFIER_KEYS,
          line, input, oslog, stdout, scan

vars == <<pc, dry_run, raw, cal_fd, heap, KEYS, FUNCTION_MODIFIER_KEYS,
          line, input, oslog, stdout, scan>>

\* Number of lines one run reads from the serial device.
MaxLines == 4

\* Number of lines one --raw run reads from the serial device.
MaxScans == 2

\* Number of values the Arduino sends per scan.
NUM_KEYS == 96

(***************************************************************************)
(* bytes.strip(), bytes.split(b","), int()                                 *)
(***************************************************************************)
Whitespace == {" ", "\t", "\n", "\r"}

Digits == {"0", "1", "2", "3", "4", "5", "6", "7", "8", "9"}

DigitValue(c) ==
    CASE c = "0" -> 0 [] c = "1" -> 1 [] c = "2" -> 2 [] c = "3" -> 3
      [] c = "4" -> 4 [] c = "5" -> 5 [] c = "6" -> 6 [] c = "7" -> 7
      [] c = "8" -> 8 [] c = "9" -> 9

\* The positions 1..Len(s), in order.
Positions(s) == [i \in 1..Len(s) |-> i]

\* s.strip(): drop leading and trailing ASCII whitespace.
strip(s) ==
    LET keep == SelectSeq(Positions(s), LAMBDA i : s[i] \notin Whitespace)
    IN  IF keep = <<>> THEN <<>> ELSE SubSeq(s, keep[1], keep[Len(keep)])

\* The fields of s given the positions of its commas, in order.
FieldsBetween(s, commas) ==
    [k \in 1..(Len(commas) + 1) |->
        SubSeq(s,
               (IF k = 1 THEN 0 ELSE commas[k - 1]) + 1,
               (IF k > Len(commas) THEN Len(s) + 1 ELSE commas[k]) - 1)]

\* s.split(b","): the fields between the commas; one (empty) field if none.
split(s) == FieldsBetween(s, SelectSeq(Positions(s), LAMBDA i : s[i] = ","))

\* The digits of an integer literal once sign and padding are removed.
LiteralBody(b) ==
    LET s == strip(b)
    IN  IF s # <<>> /\ s[1] \in {"+", "-"} THEN Tail(s) ELSE s

\* int(b) raises ValueError unless b is: optional whitespace, optional sign,
\* decimal digits with single underscores between them, optional whitespace.
IsIntLiteral(b) ==
    LET d == LiteralBody(b)
    IN  /\ d # <<>>
        /\ \A i \in 1..Len(d) : d[i] \in Digits \cup {"_"}
        /\ d[1] # "_"
        /\ d[Len(d)] # "_"
        /\ \A i \in 1..(Len(d) - 1) : ~(d[i] = "_" /\ d[i + 1] = "_")

RECURSIVE DecimalValue(_)
DecimalValue(d) ==
    IF d = <<>> THEN 0
    ELSE IF d[Len(d)] = "_" THEN DecimalValue(SubSeq(d, 1, Len(d) - 1))
    ELSE 10 * DecimalValue(SubSeq(d, 1, Len(d) - 1)) + DigitValue(d[Len(d)])

\* int(b) for a b that is an integer literal.
int(b) ==
    LET s == strip(b)
    IN  IF s[1] = "-" THEN 0 - DecimalValue(LiteralBody(b))
        ELSE DecimalValue(LiteralBody(b))

(***************************************************************************)
(* Calibration files: the (field, cfg) pairs of the JSON object, in order. *)
(***************************************************************************)
ModifierCfg == [name |-> "fn", type |-> "function_key_modifier"]

CalShadow ==
    << <<<<"5">>, [name |-> "5", shadow_function_key |-> "F5"]>>,
       <<<<"6">>, ModifierCfg>> >>

CalTwoModifiers ==
    << <<<<"5">>, [name |-> "5", scancode |-> "#6",
                   shadow_function_key |-> "F5", press_and_release |-> FALSE]>>,
       <<<<"6">>, ModifierCfg>>,
       <<<<"7">>, [name |-> "alt fn", type |-> "function_key_modifier",
                   scancode |-> "#99", shadow_function_key |-> "F9",
                   press_and_release |-> TRUE]>> >>

CalTap ==
    << <<<<"5">>, [name |-> "caps lock", press_and_release |-> TRUE,
                   shadow_function_key |-> "F5"]>>,
       <<<<"6">>, ModifierCfg>>,
       <<<<"7">>, [name |-> "b", scancode |-> "#48", type |-> "normal"]>> >>

CalGlobal ==
    << <<<<"5">>, [name |-> "5", shadow_function_key |-> "F5"]>>,
       <<<<"g", "l", "o", "b", "a", "l">>, [max_confidence |-> 2]>>,
       <<<<"6">>, ModifierCfg>> >>

CalibrationFiles == {CalShadow, CalTwoModifiers, CalTap, CalGlobal}

\* The calibration of the scan-mode scenario: key 0 with an explicit threshold.
CalScan ==
    << <<<<"0">>, [name |-> "a", voltage_threshold |-> 500,
                   max_confidence |-> 1]>> >>

(***************************************************************************)
(* Lines the serial device delivers in event mode.                         *)
(***************************************************************************)
KeyFields == {<<"5">>, <<"6">>, <<"7">>}

EventLines ==
    {k \o <<",">> \o p \o <<"\n">> : k \in KeyFields, p \in {<<"0">>, <<"1">>}}
    \cup { <<>>,                                  \* read timeout
           <<"5", "\n">>,                         \* one field
           <<"5", ",", "1", ",", "0", "\n">>,     \* three fields
           <<"x", ",", "1", "\n">> }              \* non-numeric field

(***************************************************************************)
(* Lines the serial device delivers in scan (debug) mode.                  *)
(***************************************************************************)
DigitChar(n) == <<"0", "1", "2", "3", "4", "5", "6", "7", "8", "9">>[n + 1]

\* str(n) for an integer n.
RECURSIVE NaturalChars(_)
NaturalChars(n) ==
    IF n < 10 THEN <<DigitChar(n)>>
    ELSE NaturalChars(n \div 10) \o <<DigitChar(n % 10)>>

DecimalChars(n) == IF n < 0 THEN <<"-">> \o NaturalChars(0 - n) ELSE NaturalChars(n)

\* b",".join(fields)
RECURSIVE join(_)
join(fields) ==
    IF fields = <<>> THEN <<>>
    ELSE IF Len(fields) = 1 THEN fields[1]
    ELSE LET half == Len(fields) \div 2
         IN  join(SubSeq(fields, 1, half)) \o <<",">>
             \o join(SubSeq(fields, half + 1, Len(fields)))

\* A 10-bit analog reading for position i of a scan.
Voltage(i) == (i * 37) % 1024

VoltageFields(n) == [i \in 1..n |-> DecimalChars(Voltage(i))]

OtherFields(n) == [i \in 1..n |-> IF i = 2 THEN <<" ", "-", "7">> ELSE <<"5", "1", "0">>]

\* A well-formed scan in which key 0 reads v and every other key reads 0.
ScenarioLine(v) ==
    join([i \in 1..NUM_KEYS |-> IF i = 1 THEN DecimalChars(v) ELSE <<"0">>])
    \o <<",", "\n">>

ScanLines ==
    { join(VoltageFields(NUM_KEYS)) \o <<",", "\r", "\n">>,      \* every value followed by a comma
      join(OtherFields(NUM_KEYS)) \o <<",", "\n">>,
      join(VoltageFields(NUM_KEYS)) \o <<"\n">>,                 \* no comma after the last value
      join(VoltageFields(NUM_KEYS + 1)) \o <<"\n">>,             \* one value too many, no final comma
      join(VoltageFields(NUM_KEYS)) \o <<",", "x", "\n">>,       \* text after the last comma
      join(VoltageFields(NUM_KEYS - 1)) \o <<",", "\n">>,        \* one value short
      join(VoltageFields(NUM_KEYS + 1)) \o <<",", "\n">>,        \* one value too many
      join([VoltageFields(NUM_KEYS) EXCEPT ![40] = <<"4", "x">>]) \o <<",", "\n">>,
      <<>>,                                                      \* read timeout
      ScenarioLine(490), ScenarioLine(510) }

(***************************************************************************)
(* Python dicts                                                            *)
(***************************************************************************)
\* d[f] = v on a dict d.
SetItem(d, f, v) == [k \in DOMAIN d \cup {f} |-> IF k = f THEN v ELSE d[k]]

\* The dict KEYS[idx] refers to.
Cfg(idx) == heap[KEYS[idx]]

is_function_key_modifier(idx) ==
    "type" \in DOMAIN Cfg(idx) /\ Cfg(idx)["type"] = "function_key_modifier"

shadows_function_key(idx) == "shadow_function_key" \in DOMAIN Cfg(idx)

\* Variant: the function key is used only while every modifier is held.
should_use_function_key_all(idx) ==
    /\ shadows_function_key(idx)
    /\ \A m \in DOMAIN FUNCTION_MODIFIER_KEYS :
          heap[FUNCTION_MODIFIER_KEYS[m]]["pressed"]

should_use_function_key(idx) ==
    /\ shadows_function_key(idx)
    /\ \E m \in DOMAIN FUNCTION_MODIFIER_KEYS :
          heap[FUNCTION_MODIFIER_KEYS[m]]["pressed"]

\* Variant: the scancode is looked up before the function key.
get_key_scancode_first(idx) ==
    IF "scancode" \in DOMAIN Cfg(idx) THEN Cfg(idx)["scancode"]
    ELSE IF should_use_function_key(idx) THEN Cfg(idx)["shadow_function_key"]
    ELSE Cfg(idx)["name"]

get_key(idx) ==
    IF should_use_function_key(idx) THEN Cfg(idx)["shadow_function_key"]
    ELSE IF "scancode" \in DOMAIN Cfg(idx) THEN Cfg(idx)["scancode"]
    ELSE Cfg(idx)["name"]

should_press_and_release(idx) ==
    "press_and_release" \in DOMAIN Cfg(idx) /\ Cfg(idx)["press_and_release"]

(***************************************************************************)
(* load_key_calibration, run over the whole file.  The result is the       *)
(* tables after the loop, and whether int(field) raised ValueError (the    *)
(* entries before the failing one are already stored).                     *)
(***************************************************************************)
RECURSIVE LoadFrom(_, _, _, _, _)
LoadFrom(fd, i, h, keys, fmk) ==
    IF i > Len(fd) THEN [raised |-> FALSE, heap |-> h, KEYS |-> keys, FMK |-> fmk]
    ELSE IF ~IsIntLiteral(fd[i][1])
         THEN [raised |-> TRUE, heap |-> h, KEYS |-> keys, FMK |-> fmk]
    ELSE LET idx   == int(fd[i][1])
             cfg   == fd[i][2]
             keys1 == [k \in DOMAIN keys \cup {idx} |->
                          IF k = idx THEN i ELSE keys[k]]
             isMod == "type" \in DOMAIN cfg
                      /\ cfg["type"] = "function_key_modifier"
         IN  IF isMod
             THEN LoadFrom(fd, i + 1,
                           [r \in DOMAIN h \cup {i} |->
                               IF r = i THEN SetItem(cfg, "pressed", FALSE)
                               ELSE h[r]],
                           keys1,
                           [k \in DOMAIN fmk \cup {idx} |->
                               IF k = idx THEN i ELSE fmk[k]])
             ELSE LoadFrom(fd, i + 1,
                           [r \in DOMAIN h \cup {i} |->
                               IF r = i THEN cfg ELSE h[r]],
                           keys1, fmk)

load_key_calibration(fd) == LoadFrom(fd, 1, <<>>, <<>>, <<>>)

(***************************************************************************)
(* press_key / release_key                                                 *)
(***************************************************************************)
\* Variant: the modifier branch comes before the dry_run branch.
press_key_modifier_first(idx) ==
    IF idx \notin DOMAIN KEYS
    THEN UNCHANGED <<heap, oslog, stdout>>
    ELSE IF is_function_key_modifier(idx)
    THEN /\ heap' = [heap EXCEPT ![FUNCTION_MODIFIER_KEYS[idx]] =
                        SetItem(@, "pressed", TRUE)]
         /\ UNCHANGED <<oslog, stdout>>
    ELSE IF dry_run
    THEN /\ stdout' = Append(stdout, <<"Pressing", Cfg(idx)>>)
         /\ UNCHANGED <<heap, oslog>>
    ELSE IF should_press_and_release(idx)
    THEN /\ oslog' = Append(oslog, <<"press_and_release", get_key(idx)>>)
         /\ UNCHANGED <<heap, stdout>>
    ELSE /\ oslog' = Append(oslog, <<"press", get_key(idx)>>)
         /\ UNCHANGED <<heap, stdout>>

\* Variant: a key is pressed only on the second press message in a row.
press_key_debounced(idx) ==
    IF idx \notin DOMAIN KEYS
    THEN UNCHANGED <<heap, oslog, stdout>>
    ELSE IF dry_run
    THEN /\ stdout' = Append(stdout, <<"Pressing", Cfg(idx)>>)
         /\ UNCHANGED <<heap, oslog>>
    ELSE IF is_function_key_modifier(idx)
    THEN /\ heap' = [heap EXCEPT ![FUNCTION_MODIFIER_KEYS[idx]] =
                        SetItem(@, "pressed", TRUE)]
         /\ UNCHANGED <<oslog, stdout>>
    ELSE IF input = <<>> \/ input[Len(input)] # line'
    THEN UNCHANGED <<heap, oslog, stdout>>
    ELSE IF should_press_and_release(idx)
    THEN /\ oslog' = Append(oslog, <<"press_and_release", get_key(idx)>>)
         /\ UNCHANGED <<heap, stdout>>
    ELSE /\ oslog' = Append(oslog, <<"press", get_key(idx)>>)
         /\ UNCHANGED <<heap, stdout>>

\* Variant: the modifier branch lacks its return and goes on to press the key.
press_key_modifier_emits(idx) ==
    IF idx \notin DOMAIN KEYS
    THEN UNCHANGED <<heap, oslog, stdout>>
    ELSE IF dry_run
    THEN /\ stdout' = Append(stdout, <<"Pressing", Cfg(idx)>>)
         /\ UNCHANGED <<heap, oslog>>
    ELSE IF is_function_key_modifier(idx)
    THEN /\ heap' = [heap EXCEPT ![FUNCTION_MODIFIER_KEYS[idx]] =
                        SetItem(@, "pressed", TRUE)]
         /\ oslog' = Append(oslog, <<"press", Cfg(idx)["name"]>>)
         /\ UNCHANGED stdout
    ELSE IF should_press_and_release(idx)
    THEN /\ oslog' = Append(oslog, <<"press_and_release", get_key(idx)>>)
         /\ UNCHANGED <<heap, stdout>>
    ELSE /\ oslog' = Append(oslog, <<"press", get_key(idx)>>)
         /\ UNCHANGED <<heap, stdout>>

\* Variant: an index without calibration is pressed under a fallback name.
press_key_unchecked(idx) ==
    IF idx \notin DOMAIN KEYS
    THEN /\ oslog' = Append(oslog, <<"press", "unknown">>)
         /\ UNCHANGED <<heap, stdout>>
    ELSE IF dry_run
    THEN /\ stdout' = Append(stdout, <<"Pressing", Cfg(idx)>>)
         /\ UNCHANGED <<heap, oslog>>
    ELSE IF is_function_key_modifier(idx)
    THEN /\ heap' = [heap EXCEPT ![FUNCTION_MODIFIER_KEYS[idx]] =
                        SetItem(@, "pressed", TRUE)]
         /\ UNCHANGED <<oslog, stdout>>
    ELSE IF should_press_and_release(idx)
    THEN /\ oslog' = Append(oslog, <<"press_and_release", get_key(idx)>>)
         /\ UNCHANGED <<heap, stdout>>
    ELSE /\ oslog' = Append(oslog, <<"press", get_key(idx)>>)
         /\ UNCHANGED <<heap, stdout>>

press_key(idx) ==
    IF idx \notin DOMAIN KEYS
    THEN UNCHANGED <<heap, oslog, stdout>>
    ELSE IF dry_run
    THEN /\ stdout' = Append(stdout, <<"Pressing", Cfg(idx)>>)
         /\ UNCHANGED <<heap, oslog>>
    ELSE IF is_function_key_modifier(idx)
    THEN /\ heap' = [heap EXCEPT ![FUNCTION_MODIFIER_KEYS[idx]] =
                        SetItem(@, "pressed", TRUE)]
         /\ UNCHANGED <<oslog, stdout>>
    ELSE IF should_press_and_release(idx)
    THEN /\ oslog' = Append(oslog, <<"press_and_release", get_key(idx)>>)
         /\ UNCHANGED <<heap, stdout>>
    ELSE /\ oslog' = Append(oslog, <<"press", get_key(idx)>>)
         /\ UNCHANGED <<heap, stdout>>

\* Variant: releasing a modifier leaves its flag as it is.
release_key_keeps_flag(idx) ==
    IF idx \notin DOMAIN KEYS
    THEN UNCHANGED <<heap, oslog, stdout>>
    ELSE IF dry_run
    THEN /\ stdout' = Append(stdout, <<"Releasing", Cfg(idx)>>)
         /\ UNCHANGED <<heap, oslog>>
    ELSE IF is_function_key_modifier(idx)
    THEN UNCHANGED <<heap, oslog, stdout>>
    ELSE IF should_press_and_release(idx)
    THEN /\ oslog' = Append(oslog, <<"press_and_release", get_key(idx)>>)
         /\ UNCHANGED <<heap, stdout>>
    ELSE /\ oslog' = Append(oslog, <<"release", get_key(idx)>>)
         /\ UNCHANGED <<heap, stdout>>

\* Variant: the release never takes the press_and_release branch.
release_key_no_tap(idx) ==
    IF idx \notin DOMAIN KEYS
    THEN UNCHANGED <<heap, oslog, stdout>>
    ELSE IF dry_run
    THEN /\ stdout' = Append(stdout, <<"Releasing", Cfg(idx)>>)
         /\ UNCHANGED <<heap, oslog>>
    ELSE IF is_function_key_modifier(idx)
    THEN /\ heap' = [heap EXCEPT ![FUNCTION_MODIFIER_KEYS[idx]] =
                        SetItem(@, "pressed", FALSE)]
         /\ UNCHANGED <<oslog, stdout>>
    ELSE /\ oslog' = Append(oslog, <<"release", get_key(idx)>>)
         /\ UNCHANGED <<heap, stdout>>

release_key(idx) ==
    IF idx \notin DOMAIN KEYS
    THEN UNCHANGED <<heap, oslog, stdout>>
    ELSE IF dry_run
    THEN /\ stdout' = Append(stdout, <<"Releasing", Cfg(idx)>>)
         /\ UNCHANGED <<heap, oslog>>
    ELSE IF is_function_key_modifier(idx)
    THEN /\ heap' = [heap EXCEPT ![FUNCTION_MODIFIER_KEYS[idx]] =
                        SetItem(@, "pressed", FALSE)]
         /\ UNCHANGED <<oslog, stdout>>
    ELSE IF should_press_and_release(idx)
    THEN /\ oslog' = Append(oslog, <<"press_and_release", get_key(idx)>>)
         /\ UNCHANGED <<heap, stdout>>
    ELSE /\ oslog' = Append(oslog, <<"release", get_key(idx)>>)
         /\ UNCHANGED <<heap, stdout>>

(***************************************************************************)
(* read_messages: one iteration of the loop on the line just read.         *)
(***************************************************************************)
\* key, pressed = map(int, fields) raises ValueError unless there are
\* exactly two fields and both are integer literals.
ParsesAsMessage(l) ==
    LET fields == split(strip(l))
    IN  Len(fields) = 2 /\ IsIntLiteral(fields[1]) /\ IsIntLiteral(fields[2])

\* Variant: the ValueError of a malformed line is not caught.
read_messages_uncaught(l) ==
    IF ~ParsesAsMessage(l)
    THEN /\ pc' = "ValueError"
         /\ UNCHANGED <<heap, oslog, stdout>>
    ELSE LET fields  == split(strip(l))
             key     == int(fields[1])
             pressed == int(fields[2])
         IN  /\ pc' = "read_messages"
             /\ IF pressed # 0 THEN press_key(key) ELSE release_key(key)

read_messages(l) ==
    IF ~ParsesAsMessage(l)
    THEN /\ pc' = "read_messages"
         /\ UNCHANGED <<heap, oslog, stdout>>
    ELSE LET fields  == split(strip(l))
             key     == int(fields[1])
             pressed == int(fields[2])
         IN  /\ pc' = "read_messages"
             /\ IF pressed # 0 THEN press_key(key) ELSE release_key(key)

(***************************************************************************)
(* read_keyscans: one iteration of the loop on the line just read; the     *)
(* scan it yields, or <<>> when the iteration ends in `continue`.          *)
(***************************************************************************)
\* seq[:-1]
DropLast(seq) == SubSeq(seq, 1, Len(seq) - 1)

\* Variant: the field after the last comma is kept.
read_keyscans_keep_last(l) ==
    LET voltage_bytestrings == split(strip(l))
    IN  IF Len(voltage_bytestrings) # NUM_KEYS THEN <<>>
        ELSE IF \E i \in 1..NUM_KEYS : ~IsIntLiteral(voltage_bytestrings[i])
        THEN <<>>
        ELSE [i \in 1..NUM_KEYS |-> int(voltage_bytestrings[i])]

read_keyscans(l) ==
    LET voltage_bytestrings == DropLast(split(strip(l)))
    IN  IF Len(voltage_bytestrings) # NUM_KEYS THEN <<>>
        ELSE IF \E i \in 1..NUM_KEYS : ~IsIntLiteral(voltage_bytestrings[i])
        THEN <<>>
        ELSE [i \in 1..NUM_KEYS |-> int(voltage_bytestrings[i])]

\* f"{num:4d}"
Format4d(num) ==
    LET d == DecimalChars(num)
    IN  [i \in 1..(4 - Len(d)) |-> " "] \o d

\* The lines print_raw_scan writes: 8 rows of 12 values, then an empty line.
print_raw_scan(s) ==
    [r \in 1..8 |-> join([c \in 1..12 |-> Format4d(s[(r - 1) * 12 + c])])]
    \o << <<>> >>

(***************************************************************************)
(* The program                                                             *)
(***************************************************************************)
Init ==
    /\ pc = "main"
    /\ dry_run \in BOOLEAN
    /\ raw \in BOOLEAN
    /\ cal_fd \in CalibrationFiles \cup (IF raw THEN {CalScan} ELSE {})
    /\ heap = <<>>
    /\ KEYS = <<>>
    /\ FUNCTION_MODIFIER_KEYS = <<>>
    /\ line = <<>>
    /\ input = <<>>
    /\ oslog = <<>>
    /\ stdout = <<>>
    /\ scan = <<>>

\* main: load the calibration, then enter the loop the arguments select.
Main ==
    /\ pc = "main"
    /\ LET loaded == load_key_calibration(cal_fd)
       IN  /\ heap' = loaded.heap
           /\ KEYS' = loaded.KEYS
           /\ FUNCTION_MODIFIER_KEYS' = loaded.FMK
           /\ pc' = IF loaded.raised THEN "ValueError"
                    ELSE IF raw THEN "read_keyscans" ELSE "read_messages"
    /\ UNCHANGED <<dry_run, raw, cal_fd, line, input, oslog, stdout, scan>>

ReadMessage ==
    /\ pc = "read_messages"
    /\ Len(input) < MaxLines
    /\ \E l \in EventLines :
          /\ line' = l
          /\ input' = Append(input, l)
          /\ read_messages(l)
    /\ UNCHANGED <<dry_run, raw, cal_fd, KEYS, FUNCTION_MODIFIER_KEYS, scan>>

\* main's --raw loop: take the next scan of read_keyscans and print it.
ReadKeyscan ==
    /\ pc = "read_keyscans"
    /\ Len(input) < MaxScans
    /\ \E l \in ScanLines :
          /\ line' = l
          /\ input' = Append(input, l)
          /\ scan' = read_keyscans(l)
          /\ stdout' = IF read_keyscans(l) = <<>> THEN stdout
                        ELSE stdout \o print_raw_scan(read_keyscans(l))
    /\ UNCHANGED <<pc, dry_run, raw, cal_fd, heap, KEYS, FUNCTION_MODIFIER_KEYS, oslog>>

Next == Main \/ ReadMessage \/ ReadKeyscan

Spec == Init /\ [][Next]_vars

(***************************************************************************)
(* Vocabulary of the properties                                            *)
(***************************************************************************)
\* The line is exactly two comma-separated integers.
IsMessage(l) ==
    LET f == split(strip(l))
    IN  Len(f) = 2 /\ \A i \in 1..2 : IsIntLiteral(f[i])

MessageKey(l) == int(split(strip(l))[1])

MessageIsPress(l) == int(split(strip(l))[2]) # 0

\* The line is a press or release message for a key with a calibration entry.
IsKeyMessage(l) == IsMessage(l) /\ MessageKey(l) \in DOMAIN KEYS

Calibration(k) == heap[KEYS[k]]

IsModifier(k) ==
    /\ "type" \in DOMAIN Calibration(k)
    /\ Calibration(k)["type"] = "function_key_modifier"

Modifiers == {k \in DOMAIN KEYS : IsModifier(k)}

HeldModifiers == {k \in Modifiers : Calibration(k)["pressed"]}

HasShadow(k) == "shadow_function_key" \in DOMAIN Calibration(k)

IsTapKey(k) ==
    /\ "press_and_release" \in DOMAIN Calibration(k)
    /\ Calibration(k)["press_and_release"] = TRUE

\* The identity of key k when `held` tells whether some modifier is held.
ResolvedIdentity(k, held) ==
    IF HasShadow(k) /\ held THEN Calibration(k)["shadow_function_key"]
    ELSE IF "scancode" \in DOMAIN Calibration(k) THEN Calibration(k)["scancode"]
    ELSE Calibration(k)["name"]

Identities(k) == {ResolvedIdentity(k, TRUE), ResolvedIdentity(k, FALSE)}

\* A step of the event loop that has just read line'.
ReadsMessage == pc = "read_messages" /\ input' # input

\* The OS log grows by exactly one action.
EmitsOne == Len(oslog') = Len(oslog) + 1 /\ SubSeq(oslog', 1, Len(oslog)) = oslog

\* Identities with an OS press that no later OS release or tap matches.
HeldInOS ==
    {oslog[i][2] : i \in {n \in 1..Len(oslog) :
        /\ oslog[n][1] = "press"
        /\ ~\E j \in (n + 1)..Len(oslog) :
              /\ oslog[j][1] \in {"release", "press_and_release"}
              /\ oslog[j][2] = oslog[n][2]}}

\* Keys whose last message in the input is a press.
PhysicallyDown ==
    {k \in DOMAIN KEYS :
        \E i \in 1..Len(input) :
            /\ IsMessage(input[i]) /\ MessageKey(input[i]) = k
            /\ MessageIsPress(input[i])
            /\ ~\E j \in (i + 1)..Len(input) :
                  /\ IsMessage(input[j]) /\ MessageKey(input[j]) = k
                  /\ ~MessageIsPress(input[j])}

\* The input is: press m, press k, release k, release m.
Scenario(m, k) ==
    /\ Len(input) = 4
    /\ \A i \in 1..4 : IsMessage(input[i])
    /\ <<MessageKey(input[1]), MessageKey(input[2]),
         MessageKey(input[3]), MessageKey(input[4])>> = <<m, k, k, m>>
    /\ <<MessageIsPress(input[1]), MessageIsPress(input[2]),
         MessageIsPress(input[3]), MessageIsPress(input[4])>>
          = <<TRUE, TRUE, FALSE, FALSE>>

\* The OS actions the messages from position i on call for, when the
\* modifiers in `held` are held before message i: each non-modifier message
\* resolved with the modifiers held at that moment, nothing for the rest.
RECURSIVE EventsFrom(_, _)
EventsFrom(i, held) ==
    IF i > Len(input) THEN <<>>
    ELSE IF ~IsKeyMessage(input[i]) THEN EventsFrom(i + 1, held)
    ELSE LET k == MessageKey(input[i])
             p == MessageIsPress(input[i])
         IN  IF IsModifier(k)
             THEN EventsFrom(i + 1, IF p THEN held \cup {k} ELSE held \ {k})
             ELSE << <<IF IsTapKey(k) THEN "press_and_release"
                       ELSE IF p THEN "press" ELSE "release",
                       ResolvedIdentity(k, held # {})>> >>
                  \o EventsFrom(i + 1, held)

(***************************************************************************)
(* Properties                                                              *)
(***************************************************************************)

\* C1: in non-dry-run mode a press or release of a calibrated key that is not
\* a modifier hands the OS one action whose identity is the key's
\* shadow_function_key if it has one and some modifier is held, else its
\* scancode if it has one, else its name.
C1_Identity ==
    [][ (ReadsMessage /\ ~dry_run /\ IsKeyMessage(line')
            /\ ~IsModifier(MessageKey(line')))
        => /\ EmitsOne
           /\ oslog'[Len(oslog')][2]
                 = ResolvedIdentity(MessageKey(line'), HeldModifiers # {}) ]_vars

C1_Witness ==
    /\ ~dry_run
    /\ \E i, j \in 1..Len(oslog) : oslog[i][2] = "F5" /\ oslog[j][2] = "#6"

\* C2 (as claimed): a message for a modifier key invokes no OS action, sets
\* the key's own flag to true on a press and to false on a release, and
\* leaves the flags of the other modifiers alone.
C2_ModifierMessage ==
    [][ (ReadsMessage /\ IsKeyMessage(line') /\ IsModifier(MessageKey(line')))
        => /\ oslog' = oslog
           /\ heap'[KEYS[MessageKey(line')]]["pressed"] = MessageIsPress(line')
           /\ \A m \in Modifiers \ {MessageKey(line')} :
                 heap'[KEYS[m]]["pressed"] = heap[KEYS[m]]["pressed"] ]_vars

\* C3 (as claimed): after press m, press k, release k, release m, with m a
\* modifier and k a key with a shadow_function_key, the OS has received
\* exactly press(shadow of k), release(shadow of k).
C3_Original ==
    pc = "read_messages" =>
        \A m \in Modifiers : \A k \in DOMAIN KEYS \ Modifiers :
            (HasShadow(k) /\ Scenario(m, k)) =>
                oslog = << <<"press", Calibration(k)["shadow_function_key"]>>,
                           <<"release", Calibration(k)["shadow_function_key"]>> >>

\* C3 (amended): in non-dry-run mode and for a k that is not press_and_release,
\* that sequence gives exactly press(shadow), release(shadow); a
\* press_and_release k gives press_and_release(shadow) twice, and dry-run mode
\* gives no OS action.
C3_Amended ==
    pc = "read_messages" =>
        \A m \in Modifiers : \A k \in DOMAIN KEYS \ Modifiers :
            (HasShadow(k) /\ Scenario(m, k)) =>
                LET shadow == Calibration(k)["shadow_function_key"]
                IN  oslog = IF dry_run THEN <<>>
                            ELSE IF IsTapKey(k)
                            THEN << <<"press_and_release", shadow>>,
                                    <<"press_and_release", shadow>> >>
                            ELSE << <<"press", shadow>>, <<"release", shadow>> >>

C3_Witness ==
    /\ pc = "read_messages" /\ ~dry_run
    /\ \E m \in Modifiers : \E k \in DOMAIN KEYS \ Modifiers :
          HasShadow(k) /\ ~IsTapKey(k) /\ Scenario(m, k)

\* C4: the OS log is the input replayed one message at a time, each event of
\* a key resolved with the modifiers held when that message arrives, and no
\* event for a modifier message: neither the press-time identity nor a later
\* modifier change touches a key that is held.
C4_ResolvedPerTransition ==
    (pc = "read_messages" /\ ~dry_run) => oslog = EventsFrom(1, {})

C4_Witness ==
    /\ pc = "read_messages" /\ ~dry_run /\ HeldModifiers # {}
    /\ oslog = << <<"press", "5">>, <<"release", "F5">> >>

\* C5 (as claimed): in non-dry-run mode, once every pressed key has been
\* released again, no identity is left held down in the OS.
C5_NoMissedKeyUp ==
    (pc = "read_messages" /\ ~dry_run /\ PhysicallyDown = {}) => HeldInOS = {}

\* C6 (as claimed): the OS events of a key that is neither a modifier nor
\* press_and_release alternate press, release, press, ... whatever the input.
C6_NoDuplicates ==
    pc = "read_messages" =>
        \A k \in DOMAIN KEYS \ Modifiers :
            ~IsTapKey(k) =>
                LET ev == SelectSeq(oslog, LAMBDA e : e[2] \in Identities(k))
                IN  \A i \in 1..Len(ev) :
                        ev[i][1] = IF i % 2 = 1 THEN "press" ELSE "release"

\* C7: a message whose key index has no calibration entry invokes no OS
\* action, prints no trace record, changes no flag and no table, and the loop
\* goes on.
C7_Uncalibrated ==
    [][ (ReadsMessage /\ IsMessage(line') /\ MessageKey(line') \notin DOMAIN KEYS)
        => /\ oslog' = oslog /\ stdout' = stdout
           /\ heap' = heap /\ KEYS' = KEYS
           /\ FUNCTION_MODIFIER_KEYS' = FUNCTION_MODIFIER_KEYS
           /\ pc' = "read_messages" ]_vars

C7_Witness ==
    /\ pc = "read_messages" /\ Len(input) = 3
    /\ IsKeyMessage(input[1]) /\ IsKeyMessage(input[3])
    /\ IsMessage(input[2]) /\ MessageKey(input[2]) \notin DOMAIN KEYS
    /\ Len(oslog) + Len(stdout) = 2

\* C8: in event mode a line that is not exactly two comma-separated integers
\* causes no OS action, no trace record and no flag change, and the loop reads
\* on from the state the line found.
C8_Malformed ==
    [][ (ReadsMessage /\ ~IsMessage(line'))
        => /\ oslog' = oslog /\ stdout' = stdout
           /\ heap' = heap /\ KEYS' = KEYS
           /\ FUNCTION_MODIFIER_KEYS' = FUNCTION_MODIFIER_KEYS
           /\ pc' = "read_messages" ]_vars

C8_Witness ==
    /\ pc = "read_messages" /\ Len(input) = 3
    /\ IsKeyMessage(input[1]) /\ ~IsMessage(input[2]) /\ IsKeyMessage(input[3])
    /\ Len(oslog) + Len(stdout) = 2

\* C9 (as claimed): read_keyscans yields a scan for a line iff the line is a
\* comma-separated list of exactly NUM_KEYS integers, and the scan holds them.
C9_Original ==
    (pc = "read_keyscans" /\ input # <<>>) =>
        LET f == split(strip(line))
        IN  /\ scan # <<>> <=>
                  (Len(f) = NUM_KEYS /\ \A i \in 1..Len(f) : IsIntLiteral(f[i]))
            /\ scan # <<>> => scan = [i \in 1..NUM_KEYS |-> int(f[i])]

\* C9 (amended): read_keyscans yields a scan for a line iff the stripped line
\* splits at its commas into exactly NUM_KEYS + 1 fields of which the first
\* NUM_KEYS are integers (every value is followed by a comma); the scan holds
\* those NUM_KEYS values in order and the field after the last comma is
\* dropped unread.
C9_Amended ==
    (pc = "read_keyscans" /\ input # <<>>) =>
        LET f == split(strip(line))
        IN  /\ scan # <<>> <=>
                  (Len(f) = NUM_KEYS + 1 /\ \A i \in 1..NUM_KEYS : IsIntLiteral(f[i]))
            /\ scan # <<>> => scan = [i \in 1..NUM_KEYS |-> int(f[i])]

C9_Witness ==
    /\ pc = "read_keyscans" /\ Len(input) = 2
    /\ scan # <<>> /\ scan[2] = 0 - 7
    /\ Len(stdout) = 9

\* C10: in non-dry-run mode every message of a press_and_release key that is
\* not a modifier is emitted as one press_and_release action and never as a
\* bare press or release, so its identity is never left held in the OS.
C10_Tap ==
    (pc = "read_messages" /\ ~dry_run) =>
        \A k \in DOMAIN KEYS \ Modifiers :
            IsTapKey(k) =>
                /\ \A i \in 1..Len(oslog) :
                      oslog[i][2] \in Identities(k) => oslog[i][1] = "press_and_release"
                /\ Len(SelectSeq(oslog, LAMBDA e : e[2] \in Identities(k)))
                      = Len(SelectSeq(input, LAMBDA l : IsMessage(l) /\ MessageKey(l) = k))
                /\ Identities(k) \cap HeldInOS = {}

C10_Witness ==
    /\ pc = "read_messages" /\ ~dry_run
    /\ oslog = << <<"press_and_release", "caps lock">>,
                  <<"press_and_release", "F5">>,
                  <<"press", "#48">> >>

\* C11: in dry-run mode no OS action is ever invoked, and every press or
\* release message for a calibrated key prints exactly one trace record,
\* tagged as a press or a release, that carries the key's calibration record.
C11_DryRun ==
    [][ (ReadsMessage /\ dry_run)
        => /\ oslog' = <<>>
           /\ IsKeyMessage(line') =>
                 stdout' = Append(stdout,
                                  <<IF MessageIsPress(line') THEN "Pressing"
                                    ELSE "Releasing",
                                    Calibration(MessageKey(line'))>>) ]_vars

C11_Witness ==
    /\ pc = "read_messages" /\ dry_run /\ oslog = <<>>
    /\ Len(input) = 2 /\ Len(stdout) = 2
    /\ stdout[1][1] = "Pressing" /\ IsModifier(MessageKey(input[1]))
    /\ stdout[2][1] = "Releasing"

\* C12 (as claimed): loading a calibration source whose fields are key indices
\* plus "global" completes without error, and every entry other than "global"
\* becomes the calibration of the key with that index.
C12_GlobalLoads ==
    pc # "main" =>
        LET keyEntries == {i \in 1..Len(cal_fd) :
                              cal_fd[i][1] # <<"g", "l", "o", "b", "a", "l">>}
        IN  /\ pc # "ValueError"
            /\ DOMAIN KEYS = {int(cal_fd[i][1]) : i \in keyEntries}
            /\ \A i \in keyEntries : \A f \in DOMAIN cal_fd[i][2] :
                  Calibration(int(cal_fd[i][1]))[f] = cal_fd[i][2][f]

\* The last OS event of key k is not a press: its emitted state is Released.
EmittedReleased(k) ==
    LET ev == SelectSeq(oslog, LAMBDA e : e[2] \in Identities(k))
    IN  ev = <<>> \/ ev[Len(ev)][1] # "press"

\* C13: in non-dry-run mode a press message for a calibrated non-modifier key
\* whose last emitted state is Released produces its OS press (its tap, for a
\* press_and_release key) in the step that processes the message, whatever
\* was read before.
C13_PressImmediate ==
    [][ (ReadsMessage /\ ~dry_run /\ IsKeyMessage(line') /\ MessageIsPress(line')
            /\ ~IsModifier(MessageKey(line')) /\ EmittedReleased(MessageKey(line')))
        => /\ EmitsOne
           /\ oslog'[Len(oslog')][1]
                 = IF IsTapKey(MessageKey(line')) THEN "press_and_release"
                   ELSE "press" ]_vars

C13_Witness ==
    /\ pc = "read_messages" /\ ~dry_run
    /\ Len(input) = 1 /\ IsKeyMessage(input[1]) /\ MessageIsPress(input[1])
    /\ oslog = << <<"press", "5">> >>

\* The input is exactly the given presses (TRUE) and releases (FALSE) of key k.
InputIs(k, presses) ==
    /\ Len(input) = Len(presses)
    /\ \A i \in 1..Len(input) :
          /\ IsMessage(input[i]) /\ MessageKey(input[i]) = k
          /\ MessageIsPress(input[i]) = presses[i]

\* C14 (as claimed): with the default max_confidence of 2, one not-pressed
\* reading after a press, whether or not a pressed reading follows it, has not
\* brought the confidence counter to 0 and produces no release event.
C14_ReleaseDebounced ==
    (pc = "read_messages" /\ ~dry_run) =>
        \A k \in DOMAIN KEYS \ Modifiers :
            (~IsTapKey(k) /\ (InputIs(k, <<TRUE, FALSE>>)
                              \/ InputIs(k, <<TRUE, FALSE, TRUE>>)))
            => \A i \in 1..Len(oslog) : oslog[i][1] # "release"

\* The scans of the scenario: key 0 reads 490, 510, 510, 490.
ScenarioScans ==
    <<ScenarioLine(490), ScenarioLine(510), ScenarioLine(510), ScenarioLine(490)>>

\* C15 (as claimed): with key 0 calibrated as "a" with threshold 500 and
\* max_confidence 1, the scans 490, 510, 510, 490 give press("a") while scan 2
\* is processed and release("a") while scan 4 is processed, and nothing else.
C15_ScanScenario ==
    (pc = "read_keyscans" /\ cal_fd = CalScan /\ input # <<>>
        /\ Len(input) <= 4 /\ input = SubSeq(ScenarioScans, 1, Len(input)))
    => oslog = IF Len(input) = 1 THEN <<>>
               ELSE IF Len(input) < 4 THEN << <<"press", "a">> >>
               ELSE << <<"press", "a">>, <<"release", "a">> >>

\* C16 (as claimed): after every message the flag of each modifier is what a
\* non-dry-run execution of the same input gives, set iff the modifier's last
\* message was a press, in dry-run mode too.
C16_FlagsIgnoreDryRun ==
    pc = "read_messages" => HeldModifiers = PhysicallyDown \cap Modifiers

\* C17 (as claimed): no press_key or release_key call adds, removes or changes
\* a field of an entry of KEYS.
C17_CalibrationReadOnly ==
    [][ ReadsMessage
        => /\ DOMAIN KEYS' = DOMAIN KEYS
           /\ \A k \in DOMAIN KEYS : heap'[KEYS'[k]] = heap[KEYS[k]] ]_vars

====
